---- MODULE Spec2Model ----
(***************************************************************************)
(* Event router of the mafiahelper bot (src/src/bot.js): the top-level     *)
(* script, the ready / message / messageUpdate / messageDelete handlers    *)
(* and the process-wide error handlers.  Texts are sequences of            *)
(* one-character strings.  The managers (CommandManager, Stats, Logger)    *)
(* are required from ./managers, which is not part of the sources at hand; *)
(* they are modelled from their contract in spec.md.                       *)
(***************************************************************************)
EXTENDS Integers, Sequences, FiniteSets, TLC

VARIABLES
    config,      \* bot.config: the content of config.json
    directory,   \* the command units found under src/commands, in scan order
    store,       \* the content of the XPDB store (bot.db)
    pc,          \* "boot", "configured", "main", "loggingIn", "connected", "offline",
                 \* "exited"
    registry,    \* commands: the names registered by loadCommands
    loads,       \* number of loadCommands calls made so far
    exit,        \* why the process exited: "none", "load", "config", "token"
    initRuns,    \* number of times the body of the ready handler has run
    startTimes,  \* number of stats.set('start-time', ...) calls
    stats,       \* the counters of the Stats recorder
    severe,      \* number of logger.severe calls
    rejections,  \* rejected promises nobody handles, not yet reported
    reads,       \* store reads issued by ready and not yet resolved
    mafia,       \* bot.mafia: the caches mods, channels, votes
    inbound,     \* the message event the chat service is about to deliver
    events,      \* number of chat-service events handled so far
    last,        \* what the last handled event did
    configFile,  \* config.json: how reading it ends, and its botToken
    startup,     \* the startup diagnostics logged and the exit status
    pending,     \* command continuations that never complete
    voteView     \* the last result of buildVoteTable / buildVoteOutput

vars == <<config, directory, store, pc, registry, loads, exit, initRuns,
          startTimes, stats, severe, rejections, reads, mafia, inbound,
          events, last, configFile, startup, pending, voteView>>

-----------------------------------------------------------------------------
(* Bounds of the model *)

MaxLen == 6        \* longest message text
MaxEvents == 2     \* chat-service events handled in one run
MaxReady == 2      \* ready events in one run (the first, and reconnects)
MaxTokenLen == 3   \* longest botToken
MaxVotes == 3      \* most votes in bot.mafia.votes

-----------------------------------------------------------------------------
(* Texts *)

SP == " "
NL == "\n"
Chars == {"!", SP, NL, "p", "P"}

Texts == UNION {[1..n -> Chars] : n \in 0..MaxLen}

\* String.prototype.toLowerCase, one character
LowerChar(c) == IF c = "P" THEN "p" ELSE c

\* String.prototype.toLowerCase
ToLowerCase(s) == [i \in 1..Len(s) |-> LowerChar(s[i])]

\* String.prototype.startsWith
StartsWith(s, p) == Len(p) <= Len(s) /\ SubSeq(s, 1, Len(p)) = p

\* String.prototype.substr(n): the text from index n (0-based) to the end
Substr(s, n) == IF n >= Len(s) THEN <<>> ELSE SubSeq(s, n + 1, Len(s))

\* String.prototype.split(sep) for a one-character separator: one token per
\* separator plus one, empty tokens kept
RECURSIVE SplitOn(_, _)
SplitOn(s, seps) ==
    IF \A i \in 1..Len(s) : s[i] \notin seps
    THEN <<s>>
    ELSE LET k == CHOOSE i \in 1..Len(s) :
                     /\ s[i] \in seps
                     /\ \A j \in 1..(i - 1) : s[j] \notin seps
         IN <<SubSeq(s, 1, k - 1)>> \o SplitOn(SubSeq(s, k + 1, Len(s)), seps)

\* Array.prototype.slice(1)
Slice1(a) == Tail(a)

-----------------------------------------------------------------------------
(* Users, channels, messages *)

\* bot.user, the account the bot is logged in as
BotUser == [id |-> 0, bot |-> TRUE]
OtherBot == [id |-> 1, bot |-> TRUE]
Human2 == [id |-> 2, bot |-> FALSE]
Human3 == [id |-> 3, bot |-> FALSE]
Authors == {BotUser, OtherBot, Human2, Human3}

\* bot.users: the ids of the users in the client's cache
KnownUsers == {0, 1, 2, 3}

Channels == {10, 11}

Message(content, author, channel, mentioned) ==
    [content |-> content, author |-> author, channel |-> channel,
     mentioned |-> mentioned]

NoMsg == Message(<<>>, BotUser, 0, FALSE)

NoEvent ==
    [kind |-> "none", msg |-> NoMsg, newContent |-> <<>>, lookup |-> <<>>,
     exec |-> <<>>, outcome |-> "none", sent |-> <<>>, threw |-> FALSE]

-----------------------------------------------------------------------------
(* Configuration, command directory, store *)

Prefixes == {<<"!">>, <<"!", "!">>, <<"!", SP>>}

Ping == <<"p">>
Bang == <<"!", "p">>

Directories == {<<Ping>>, <<Ping, Bang>>, <<Ping, Ping>>}

\* what a command's run function does when called: return normally, throw,
\* return a promise that rejects, or leave a rejecting promise nobody holds
\* (ping: the promise of msg.channel.send(...).then(...) is not returned),
\* or wait for a reply send or a store read that never completes
Outcomes == {"ok", "throw", "reject", "detached", "hang"}

Absent == <<>>
Present(v) == <<v>>

\* the values the store may hold under mafia.mods, mafia.channels, mafia.votes
Stores ==
    [mods : {Absent, Present(<<2>>), Present(<<2, 9>>)},
     channels : {Absent, Present(<<10>>)},
     votes : {Absent, Present(<<[voter |-> 2, target |-> 3]>>)}]

\* the characters of the class [A-Za-z0-9._-] of line 91
TokenClass ==
    {"A", "B", "C", "D", "E", "F", "G", "H", "I", "J", "K", "L", "M", "N",
     "O", "P", "Q", "R", "S", "T", "U", "V", "W", "X", "Y", "Z",
     "a", "b", "c", "d", "e", "f", "g", "h", "i", "j", "k", "l", "m", "n",
     "o", "p", "q", "r", "s", "t", "u", "v", "w", "x", "y", "z",
     "0", "1", "2", "3", "4", "5", "6", "7", "8", "9", ".", "_", "-"}

\* the characters botToken is written with in the runs explored
TokenChars == {"a", "Z", "9", ".", "-", "!", NL}

Tokens == UNION {[1..n -> TokenChars] : n \in 0..MaxTokenLen}

\* how fse.readJsonSync ends: with the content, a SyntaxError, ENOENT, or
\* another error
ReadResults == {"ok", "syntax", "enoent", "other"}

\* config.json: botToken is missing or a string
ConfigFiles ==
    [read : ReadResults, token : {Absent} \cup {Present(t) : t \in Tokens}]

GoodConfigFile == [read |-> "ok", token |-> Present(<<"a">>)]

NoStartup == [logged |-> <<>>, exitCode |-> <<>>]

NoVoteView == [table |-> <<>>, output |-> <<>>, threw |-> FALSE, built |-> "none"]

\* the reason of a rejected promise: an Error, a value without a stack, or
\* null/undefined
Reasons == {"error", "value", "nullish"}

-----------------------------------------------------------------------------
(* Managers: CommandManager, Stats, Logger *)

HasDuplicate(dir) ==
    \E i, j \in 1..Len(dir) : i # j /\ dir[i] = dir[j]

\* CommandManager.loadCommands: the names registered from a directory
LoadedNames(dir) == {dir[i] : i \in 1..Len(dir)}

\* CommandManager.get: the unit registered under a name, <<>> when absent
CommandsGet(name) == IF name \in registry THEN <<name>> ELSE <<>>

\* Stats.increment
StatsIncrement(st, key) == [st EXCEPT ![key] = @ + 1]

\* CommandManager.execute: calls the unit's run function; a throw or a
\* rejection of the promise it returns is caught and logged, while a promise
\* the function does not return rejects unhandled
CommandsExecute(outcome) ==
    /\ severe' = IF outcome \in {"throw", "reject"} THEN severe + 1 ELSE severe
    /\ rejections' = IF outcome = "detached" THEN rejections + 1 ELSE rejections
    /\ pending' = IF outcome = "hang" THEN pending + 1 ELSE pending

-----------------------------------------------------------------------------
(* bot.on('message') *)

\* line 142 telling the bot's own messages by the bot flag of the author
StatsAfterMessageBotFlag(msg) ==
    LET s1 == StatsIncrement(stats, IF msg.author.bot
                                    THEN "sent" ELSE "received")
    IN IF msg.mentioned THEN StatsIncrement(s1, "mentions") ELSE s1

\* line 142-145: the counters after a message event
StatsAfterMessage(msg) ==
    LET s1 == StatsIncrement(stats, IF BotUser.id = msg.author.id
                                    THEN "sent" ELSE "received")
    IN IF msg.mentioned THEN StatsIncrement(s1, "mentions") ELSE s1

\* String.prototype.includes
Contains(s, p) ==
    \E i \in 0..(Len(s) - Len(p)) : SubSeq(s, i + 1, i + Len(p)) = p

\* line 147 testing for the prefix anywhere in the text
PrefixFilterAnywhere(msg) == Contains(msg.content, config.prefix)

\* line 147: the message passes when its text starts with the prefix
PrefixFilter(msg) == StartsWith(msg.content, config.prefix)

\* line 148 letting through every account but the bot's own
AuthorFilterSelfOnly(msg) == msg.author.id # BotUser.id

\* line 148: the message passes when its author is no bot account
AuthorFilter(msg) == ~msg.author.bot

\* line 150
SplitContent(content) == SplitOn(content, {SP})

\* line 151 without toLowerCase
BaseCaseKept(split) == Substr(split[1], Len(config.prefix))

\* line 151 removing every leading occurrence of the prefix
RECURSIVE StripAll(_, _)
StripAll(s, p) ==
    IF p # <<>> /\ StartsWith(s, p) THEN StripAll(Substr(s, Len(p)), p) ELSE s

BaseStrippedAll(split) == ToLowerCase(StripAll(split[1], config.prefix))

\* line 151
Base(split) == ToLowerCase(Substr(split[1], Len(config.prefix)))

\* line 152
Args(split) == Slice1(split)

\* lines 147-158: the name looked up and the commands.execute call made, each
\* a sequence of at most one element
Dispatch(msg) ==
    IF ~PrefixFilter(msg) \/ ~AuthorFilter(msg)
    THEN [lookup |-> <<>>, exec |-> <<>>]
    ELSE LET split == SplitContent(msg.content)
             base == Base(split)
             args == Args(split)
             command == CommandsGet(base)
         IN [lookup |-> <<base>>,
             exec |-> IF command # <<>>
                      THEN <<[command |-> command[1], args |-> args]>>
                      ELSE <<>>]

\* events reaching their handlers one after the other, each handler awaited
\* to the end of its continuations before the next event is delivered
DeliveringSerial == pc = "connected" /\ pending = 0

\* the client delivers an event to its handler whenever the connection is
\* up: a handler returns at its first pending promise (part_000 line 2), and
\* its continuation holds nothing back
Delivering == pc = "connected"

OnMessage(msg, outcome) ==
    /\ Delivering
    /\ events < MaxEvents
    /\ LET d == Dispatch(msg)
       IN /\ (d.exec = <<>>) => (outcome = "ok")
          /\ last' = [NoEvent EXCEPT !.kind = "message", !.msg = msg,
                                     !.lookup = d.lookup, !.exec = d.exec,
                                     !.outcome = IF d.exec = <<>> THEN "none"
                                                 ELSE outcome]
          /\ IF d.exec # <<>>
             THEN CommandsExecute(outcome)
             ELSE UNCHANGED <<severe, rejections, pending>>
    /\ stats' = StatsAfterMessage(msg)
    /\ events' = events + 1
    /\ UNCHANGED <<configFile, startup, voteView, config, directory, store, pc, registry, loads, exit,
                   initRuns, startTimes, reads, mafia>>

-----------------------------------------------------------------------------
(* Process-wide handlers, lines 198-205 *)

\* process.on('uncaughtException'): the error is logged, the process goes on
OnUncaughtException ==
    /\ severe' = severe + 1
    /\ pc' = pc

\* no 'unhandledRejection' listener: the runtime ends the process
OnUnhandledRejectionFatal(reason) ==
    /\ severe' = severe
    /\ pc' = "exited"

\* process.on('unhandledRejection'): err.stack of null or undefined throws
\* inside the handler, which the uncaughtException handler then reports
OnUnhandledRejection(reason) ==
    IF reason = "nullish"
    THEN OnUncaughtException
    ELSE /\ severe' = severe + 1
         /\ pc' = pc

UnhandledRejection ==
    /\ rejections > 0
    /\ pc # "exited"
    /\ rejections' = rejections - 1
    /\ \E reason \in Reasons : OnUnhandledRejection(reason)
    /\ UNCHANGED <<configFile, startup, voteView, pending, config, directory, store, registry, loads, exit, initRuns,
                   startTimes, stats, reads, mafia, inbound, events, last>>

-----------------------------------------------------------------------------
(* The message handler on every text: one message, drawn at the start *)

RouteMessages ==
    {Message(t, a, 10, FALSE) : t \in Texts, a \in {BotUser, OtherBot, Human2}}

InitRoute ==
    /\ configFile = GoodConfigFile
    /\ startup = NoStartup
    /\ pending = 0
    /\ voteView = NoVoteView
    /\ config \in {[prefix |-> p] : p \in Prefixes}
    /\ directory \in {d \in Directories : ~HasDuplicate(d)}
    /\ store = [mods |-> <<>>, channels |-> <<>>, votes |-> <<>>]
    /\ pc = "connected"
    /\ registry = LoadedNames(directory)
    /\ loads = 1
    /\ exit = "none"
    /\ initRuns = 1
    /\ startTimes = 1
    /\ stats = [sent |-> 0, received |-> 0, mentions |-> 0]
    /\ severe = 0
    /\ rejections = 0
    /\ reads = [mods |-> 0, channels |-> 0, votes |-> 0]
    /\ mafia = [mods |-> <<>>, channels |-> <<>>, votes |-> <<>>]
    /\ inbound \in {<<m>> : m \in RouteMessages}
    /\ events = 0
    /\ last = NoEvent

Deliver ==
    /\ inbound # <<>>
    /\ \E outcome \in Outcomes : OnMessage(inbound[1], outcome)
    /\ inbound' = <<>>

NextRoute == Deliver \/ UnhandledRejection

SpecRoute == InitRoute /\ [][NextRoute]_vars

-----------------------------------------------------------------------------
(* Top-level script and bot.on('ready') *)

\* the registry filled when the CommandManager is constructed (line 28)
InitWithLoaded(prefixes, stores) ==
    /\ configFile = GoodConfigFile
    /\ startup = NoStartup
    /\ pending = 0
    /\ voteView = NoVoteView
    /\ config \in {[prefix |-> p] : p \in prefixes}
    /\ directory \in Directories
    /\ store \in stores
    /\ pc = "main"
    /\ registry = LoadedNames(directory)
    /\ loads = 0
    /\ exit = "none"
    /\ initRuns = 0
    /\ startTimes = 0
    /\ stats = [sent |-> 0, received |-> 0, mentions |-> 0]
    /\ severe = 0
    /\ rejections = 0
    /\ reads = [mods |-> 0, channels |-> 0, votes |-> 0]
    /\ mafia = [mods |-> <<>>, channels |-> <<>>, votes |-> <<>>]
    /\ inbound = <<>>
    /\ events = 0
    /\ last = NoEvent

InitWith(prefixes, stores) ==
    /\ configFile = GoodConfigFile
    /\ startup = NoStartup
    /\ pending = 0
    /\ voteView = NoVoteView
    /\ config \in {[prefix |-> p] : p \in prefixes}
    /\ directory \in Directories
    /\ store \in stores
    /\ pc = "main"
    /\ registry = {}
    /\ loads = 0
    /\ exit = "none"
    /\ initRuns = 0
    /\ startTimes = 0
    /\ stats = [sent |-> 0, received |-> 0, mentions |-> 0]
    /\ severe = 0
    /\ rejections = 0
    /\ reads = [mods |-> 0, channels |-> 0, votes |-> 0]
    /\ mafia = [mods |-> <<>>, channels |-> <<>>, votes |-> <<>>]
    /\ inbound = <<>>
    /\ events = 0
    /\ last = NoEvent

\* line 165: bot.login(config.botToken), the last statement of the script
\* that acts on the client (the handlers of lines 167-205 are registered in
\* the same turn, before any event)
Login ==
    /\ pc = "main"
    /\ pc' = "loggingIn"
    /\ UNCHANGED <<configFile, startup, voteView, pending, config, directory, store, registry, loads, exit, initRuns,
                   startTimes, stats, severe, rejections, reads, mafia,
                   inbound, events, last>>

\* the chat service accepts the login: the connection is up
Connected ==
    /\ pc = "loggingIn"
    /\ pc' = "connected"
    /\ UNCHANGED <<configFile, startup, voteView, pending, config, directory, store, registry, loads, exit, initRuns,
                   startTimes, stats, severe, rejections, reads, mafia,
                   inbound, events, last>>

\* the chat service refuses the login: the promise of bot.login rejects, and
\* nothing handles it
LoginRejected ==
    /\ pc = "loggingIn"
    /\ pc' = "offline"
    /\ rejections' = rejections + 1
    /\ UNCHANGED <<configFile, startup, voteView, pending, config, directory, store, registry, loads, exit, initRuns,
                   startTimes, stats, severe, reads, mafia, inbound, events,
                   last>>

\* line 101 on a directory with two units of one name: the load fails, is
\* logged and ends the process
LoadFatal ==
    /\ severe' = severe + 1
    /\ pc' = "exited"
    /\ exit' = "load"
    /\ last' = [NoEvent EXCEPT !.kind = "ready", !.threw = TRUE]
    /\ UNCHANGED <<registry, startTimes, reads>>

\* lines 103-137: the rest of the ready handler
ReadyInit ==
    /\ registry' = LoadedNames(directory)
    /\ startTimes' = startTimes + 1
    /\ reads' = [k \in DOMAIN reads |-> reads[k] + 1]
    /\ last' = [NoEvent EXCEPT !.kind = "ready"]
    /\ UNCHANGED <<severe, pc, exit>>

\* lines 98-139: the handler has no guard, it runs on every ready event
OnReady ==
    /\ pc = "connected"
    /\ initRuns < MaxReady
    /\ initRuns' = initRuns + 1
    /\ loads' = loads + 1
    /\ IF HasDuplicate(directory) THEN LoadFatal ELSE ReadyInit
    /\ UNCHANGED <<configFile, startup, voteView, pending, config, directory, store, stats, rejections, mafia,
                   inbound, events>>

\* lines 124-134: one store read resolves, 'value || []' goes to the cache
ResolveRead(key) ==
    /\ pc = "connected"
    /\ reads[key] > 0
    /\ reads' = [reads EXCEPT ![key] = @ - 1]
    /\ mafia' = [mafia EXCEPT ![key] = IF store[key] = Absent THEN <<>>
                                       ELSE store[key][1]]
    /\ UNCHANGED <<configFile, startup, voteView, pending, config, directory, store, pc, registry, loads, exit,
                   initRuns, startTimes, stats, severe, rejections, inbound,
                   events, last>>

-----------------------------------------------------------------------------
(* bot.on('messageUpdate') and bot.on('messageDelete') *)

\* Array.prototype.indexOf(x) > -1
Includes(list, x) == \E i \in 1..Len(list) : list[i] = x

Send(to, kind, content) == [to |-> to, kind |-> kind, content |-> content]

\* lines 176-179: the four messages one moderator gets about an edit
EditNotice(modid, oldMsg, newContent) ==
    <<Send(modid, "editHeader", <<>>), Send(modid, "old", oldMsg.content),
      Send(modid, "newMarker", <<>>), Send(modid, "new", newContent)>>

\* lines 192-193: the two messages one moderator gets about a deletion
DeleteNotice(modid, msg) ==
    <<Send(modid, "deleteHeader", <<>>), Send(modid, "deleted", msg.content)>>

Notice(kind, modid, msg, newContent) ==
    IF kind = "update" THEN EditNotice(modid, msg, newContent)
    ELSE DeleteNotice(modid, msg)

\* mods.forEach: the messages sent, in order; bot.users.get(modid) of a user
\* that is not cached is undefined, and undefined.send throws out of the loop
RECURSIVE ForEachMod(_, _, _, _)
ForEachMod(mods, kind, msg, newContent) ==
    IF mods = <<>>
    THEN [sent |-> <<>>, threw |-> FALSE]
    ELSE IF Head(mods) \notin KnownUsers
         THEN [sent |-> <<>>, threw |-> TRUE]
         ELSE LET rest == ForEachMod(Tail(mods), kind, msg, newContent)
              IN [sent |-> Notice(kind, Head(mods), msg, newContent) \o rest.sent,
                  threw |-> rest.threw]

\* line 173 and line 189 with || in place of &&
RelayedEither(msg) ==
    \/ Includes(mafia.channels, msg.channel)
    \/ ~Includes(mafia.mods, msg.author.id)

\* line 173 and line 189 without the test of the channel
RelayedUnwatched(msg) == ~Includes(mafia.mods, msg.author.id)

\* line 173 and line 189
Relayed(msg) ==
    /\ Includes(mafia.channels, msg.channel)
    /\ ~Includes(mafia.mods, msg.author.id)

\* lines 168-181: what the update handler sends
UpdateRelay(oldMsg, newContent) ==
    IF oldMsg.author.bot \/ oldMsg.content = newContent \/ ~Relayed(oldMsg)
    THEN [sent |-> <<>>, threw |-> FALSE]
    ELSE ForEachMod(mafia.mods, "update", oldMsg, newContent)

\* lines 185-195: what the delete handler sends
DeleteRelay(msg) ==
    IF msg.author.bot \/ ~Relayed(msg)
    THEN [sent |-> <<>>, threw |-> FALSE]
    ELSE ForEachMod(mafia.mods, "delete", msg, <<>>)

\* an error thrown out of an event handler reaches process.on('uncaughtException')
AfterHandler(threw) ==
    IF threw THEN OnUncaughtException ELSE UNCHANGED <<severe, pc>>

OnMessageUpdate(oldMsg, newContent) ==
    /\ Delivering
    /\ events < MaxEvents
    /\ LET r == UpdateRelay(oldMsg, newContent)
       IN /\ last' = [NoEvent EXCEPT !.kind = "update", !.msg = oldMsg,
                                     !.newContent = newContent,
                                     !.sent = r.sent, !.threw = r.threw]
          /\ AfterHandler(r.threw)
    /\ events' = events + 1
    /\ UNCHANGED <<configFile, startup, voteView, pending, config, directory, store, registry, loads, exit, initRuns,
                   startTimes, stats, rejections, reads, mafia, inbound>>

OnMessageDelete(msg) ==
    /\ Delivering
    /\ events < MaxEvents
    /\ LET r == DeleteRelay(msg)
       IN /\ last' = [NoEvent EXCEPT !.kind = "delete", !.msg = msg,
                                     !.sent = r.sent, !.threw = r.threw]
          /\ AfterHandler(r.threw)
    /\ events' = events + 1
    /\ UNCHANGED <<configFile, startup, voteView, pending, config, directory, store, registry, loads, exit, initRuns,
                   startTimes, stats, rejections, reads, mafia, inbound>>

-----------------------------------------------------------------------------
(* The whole process *)

\* the configurations, stores and events of the runs explored
MainPrefixes == {<<"!">>}

MainStores ==
    {st \in Stores : st.channels # Absent /\ st.votes = Absent
                     /\ st.mods # Absent}

MainMessages ==
    {Message(t, a, 10, FALSE) : t \in {<<"p">>, <<"!", "p">>},
                                a \in {BotUser, Human3}}

MainEdits == {Message(<<"p">>, Human3, 10, FALSE)}

MessageEvent(msgs) ==
    \E msg \in msgs, outcome \in Outcomes :
        /\ OnMessage(msg, outcome)
        /\ UNCHANGED inbound

UpdateEvent(msgs, texts) ==
    \E msg \in msgs, newContent \in texts : OnMessageUpdate(msg, newContent)

DeleteEvent(msgs) == \E msg \in msgs : OnMessageDelete(msg)

ReadResolved == \E key \in {"mods", "channels", "votes"} : ResolveRead(key)

Next ==
    \/ Login
    \/ Connected
    \/ LoginRejected
    \/ OnReady
    \/ ReadResolved
    \/ MessageEvent(MainMessages)
    \/ UpdateEvent(MainEdits, {<<"p">>, <<"!", "p">>})
    \/ DeleteEvent(MainEdits)
    \/ UnhandledRejection

Init == InitWith(MainPrefixes, MainStores)

Spec == Init /\ [][Next]_vars

-----------------------------------------------------------------------------
(* Properties of the message handler, checked under SpecRoute *)

Handled == last.kind = "message"
Content == last.msg.content
Executed == last.exec # <<>>

\* the text before the first space
FirstToken(s) ==
    IF \E i \in 1..Len(s) : s[i] = SP
    THEN SubSeq(s, 1, (CHOOSE i \in 1..Len(s) :
                          s[i] = SP /\ \A j \in 1..(i - 1) : s[j] # SP) - 1)
    ELSE s

\* a list of arguments as it is written in a message: each one after a space
RECURSIVE Written(_)
Written(args) ==
    IF args = <<>> THEN <<>> ELSE <<SP>> \o Head(args) \o Written(Tail(args))

DelimiterFree(s) == \A i \in 1..Len(s) : s[i] \notin {SP, NL}

\* C1: a message whose text does not start with the prefix executes no
\* command, whoever wrote it and whatever is registered
C1_NoPrefixNoCommand ==
    (Handled /\ ~StartsWith(Content, config.prefix)) => ~Executed

\* a human wrote the bare name of a registered command, without the prefix
C1_Witness ==
    /\ Handled
    /\ ~StartsWith(Content, config.prefix)
    /\ ~last.msg.author.bot
    /\ Content \in registry

\* C2: a message of a bot account, the bot's own included, executes no
\* command, even when its text is the prefix and a registered name
C2_BotAuthorNoCommand ==
    (Handled /\ last.msg.author.bot) => ~Executed

\* another bot wrote the prefix and a registered name
C2_Witness ==
    /\ Handled
    /\ last.msg.author = OtherBot
    /\ \E cmd \in registry : Content = config.prefix \o cmd

\* the text is prefix + cmd followed by arguments without delimiters, each
\* after one space
WellFormed(cmd) ==
    LET head == config.prefix \o cmd
        rest == Substr(Content, Len(head))
    IN /\ StartsWith(Content, head)
       /\ rest = <<>> \/ rest[1] = SP
       /\ \A i \in 1..Len(rest) : rest[i] # NL

\* C3: for every prefix, a human's message prefix + cmd + ' ' + a1 + ... + an
\* with cmd registered executes cmd with exactly the arguments a1..an
C3_DispatchWithArgs ==
    \A cmd \in registry :
        (Handled /\ ~last.msg.author.bot /\ WellFormed(cmd)) =>
            /\ Executed
            /\ last.exec[1].command = cmd
            /\ Written(last.exec[1].args) = Substr(Content, Len(config.prefix \o cmd))

\* C4: a newline after the command name separates it from the argument as a
\* space does: prefix + cmd + '\n' + a executes cmd with [a]
C4_NewlineSplits ==
    \A cmd \in registry :
        LET head == config.prefix \o cmd
            rest == Substr(Content, Len(head))
        IN (/\ Handled
            /\ ~last.msg.author.bot
            /\ StartsWith(Content, head)
            /\ DelimiterFree(config.prefix)
            /\ Len(rest) >= 2
            /\ rest[1] = NL
            /\ DelimiterFree(Tail(rest))) =>
               /\ Executed
               /\ last.exec[1] = [command |-> cmd, args |-> <<Tail(rest)>>]

\* the case of C3 with a prefix that holds no space
C3_SpaceFreePrefix ==
    DelimiterFree(config.prefix) => C3_DispatchWithArgs

Spaces(k) == [i \in 1..k |-> SP]

\* C5: prefix + cmd + k spaces + a, k >= 2, gives the handler of cmd k-1
\* empty arguments and then a: as many arguments as delimiters
C5_EmptyArguments ==
    \A cmd \in registry :
        LET head == config.prefix \o cmd
            rest == Substr(Content, Len(head))
        IN \A k \in 2..(Len(rest) - 1) :
               LET a == Substr(rest, k)
               IN (/\ Handled
                   /\ ~last.msg.author.bot
                   /\ StartsWith(Content, head)
                   /\ SubSeq(rest, 1, k) = Spaces(k)
                   /\ DelimiterFree(a)) =>
                      /\ Executed
                      /\ last.exec[1].command = cmd
                      /\ last.exec[1].args =
                             [i \in 1..k |-> IF i < k THEN <<>> ELSE a]

\* the case of C5 with a prefix that holds no space
C5_SpaceFreePrefix ==
    DelimiterFree(config.prefix) => C5_EmptyArguments

\* C6: the prefix is taken off the first token once: a first token that
\* starts with the prefix twice is looked up under the rest with one prefix
\* left (in lower case), and when that name is not registered nothing is
\* executed and nothing is thrown or logged
C6_PrefixStrippedOnce ==
    LET token == FirstToken(Content)
        twice == config.prefix \o config.prefix
        name == ToLowerCase(config.prefix \o Substr(token, Len(twice)))
    IN (Handled /\ ~last.msg.author.bot /\ StartsWith(token, twice)) =>
           /\ last.lookup = <<name>>
           /\ name \notin registry =>
                  (~Executed /\ ~last.threw /\ severe = 0 /\ rejections = 0)

\* "!!p" under the prefix "!", with "!p" not registered
C6_Witness ==
    /\ Handled
    /\ ~last.msg.author.bot
    /\ config.prefix = <<"!">>
    /\ Content = <<"!", "!", "p">>
    /\ Bang \notin registry
    /\ last.lookup = <<Bang>>

\* C7: the command token (the first token less the prefix) is looked up in
\* lower case, and the arguments reach the handler as they were written
C7_LowercaseLookup ==
    LET token == FirstToken(Content)
        name == Substr(token, Len(config.prefix))
    IN (/\ Handled
        /\ ~last.msg.author.bot
        /\ StartsWith(token, config.prefix)
        /\ ToLowerCase(name) \in registry) =>
           /\ Executed
           /\ last.exec[1].command = ToLowerCase(name)
           /\ Written(last.exec[1].args) = Substr(Content, Len(token))

\* a command written in upper case, with an argument in upper case
C7_Witness ==
    /\ Handled
    /\ Executed
    /\ Substr(FirstToken(Content), Len(config.prefix)) = <<"P">>
    /\ last.exec[1] = [command |-> Ping, args |-> <<<<"P">>>>]

-----------------------------------------------------------------------------
(* Properties of the whole process, checked under Spec *)

\* a step in which a command handler threw or its promise rejected
HandlerFails ==
    /\ events' = events + 1
    /\ last'.kind = "message"
    /\ last'.outcome \in {"throw", "reject", "detached"}

\* C8: a failing command handler does not end the process and leaves every
\* handler able to run on the state it would have found otherwise; the
\* failure is logged through logger.severe, at once or when the unhandled
\* rejection is reported
C8_HandlerFailureContained ==
    /\ [][HandlerFails =>
            /\ pc' = "connected"
            /\ UNCHANGED <<config, directory, store, registry, mafia, reads,
                           loads, exit, initRuns, startTimes>>
            /\ stats' = StatsAfterMessage(last'.msg)
            /\ (last'.outcome = "detached")
                   => (rejections' = rejections + 1 /\ severe' = severe)
            /\ (last'.outcome # "detached")
                   => (severe' = severe + 1 /\ rejections' = rejections)]_vars
    /\ [][rejections' < rejections => (severe' = severe + 1 /\ pc' = pc)]_vars
    /\ [](pc = "exited" => exit = "load")

\* a deletion is relayed to the moderator after a handler failure was logged
C8_Witness ==
    /\ pc = "connected"
    /\ mafia.mods = <<2>>
    /\ store.mods = Present(<<2>>)
    /\ severe >= 1
    /\ rejections = 0
    /\ events >= 2
    /\ last.kind = "delete"
    /\ last.sent # <<>>

\* C9: the one-time initialization of the ready handler (loadCommands, the
\* start-time stat, the cache loads) runs at most once in a run
C9_InitOnce == loads <= 1 /\ startTimes <= 1

\* C10: loadCommands has run, to its end or to a fatal failure, before
\* bot.login is issued
C10_LoadBeforeLogin == (pc # "main") => (loads > 0)

-----------------------------------------------------------------------------
(* Top-level script, lines 31-43 and 91-94 *)

\* line 91 with the pattern not anchored: one character of the class is enough
TokenTestUnanchored(token) ==
    /\ token # Absent
    /\ \E i \in 1..Len(token[1]) : token[1][i] \in TokenClass

\* line 91: config.botToken is truthy and matches /^[A-Za-z0-9\._\-]+$/
TokenTest(token) ==
    /\ token # Absent
    /\ token[1] # <<>>
    /\ \A i \in 1..Len(token[1]) : token[1][i] \in TokenClass

\* lines 33-42: the severe calls of the catch block, by kind of error
ConfigDiagnostics(read) ==
    CASE read = "syntax" -> <<"configNotJson">>
      [] read = "enoent" -> <<"configNotFound">>
      [] OTHER -> <<"configUnknownError", "err">>

\* the diagnostics are logged through logger.severe and process.exit(1) ends
\* the process
FatalStartup(cause, diagnostics) ==
    /\ startup' = [logged |-> startup.logged \o diagnostics, exitCode |-> <<1>>]
    /\ severe' = severe + Len(diagnostics)
    /\ exit' = cause
    /\ pc' = "exited"

\* lines 31-43
ReadConfig ==
    /\ pc = "boot"
    /\ IF configFile.read = "ok"
       THEN /\ pc' = "configured"
            /\ UNCHANGED <<startup, severe, exit>>
       ELSE FatalStartup("config", ConfigDiagnostics(configFile.read))
    /\ UNCHANGED <<configFile, voteView, pending, config, directory, store,
                   registry, loads, initRuns, startTimes, stats, rejections,
                   reads, mafia, inbound, events, last>>

\* lines 91-94
CheckToken ==
    /\ pc = "configured"
    /\ IF TokenTest(configFile.token)
       THEN /\ pc' = "main"
            /\ UNCHANGED <<startup, severe, exit>>
       ELSE FatalStartup("token", <<"missingValidToken">>)
    /\ UNCHANGED <<configFile, voteView, pending, config, directory, store,
                   registry, loads, initRuns, startTimes, stats, rejections,
                   reads, mafia, inbound, events, last>>

InitBoot ==
    /\ config \in {[prefix |-> p] : p \in MainPrefixes}
    /\ directory = <<Ping>>
    /\ store = [mods |-> Absent, channels |-> Absent, votes |-> Absent]
    /\ configFile \in ConfigFiles
    /\ startup = NoStartup
    /\ pending = 0
    /\ voteView = NoVoteView
    /\ pc = "boot"
    /\ registry = {}
    /\ loads = 0
    /\ exit = "none"
    /\ initRuns = 0
    /\ startTimes = 0
    /\ stats = [sent |-> 0, received |-> 0, mentions |-> 0]
    /\ severe = 0
    /\ rejections = 0
    /\ reads = [mods |-> 0, channels |-> 0, votes |-> 0]
    /\ mafia = [mods |-> <<>>, channels |-> <<>>, votes |-> <<>>]
    /\ inbound = <<>>
    /\ events = 0
    /\ last = NoEvent

NextBoot ==
    \/ ReadConfig
    \/ CheckToken
    \/ Login
    \/ Connected
    \/ LoginRejected
    \/ UnhandledRejection

SpecBoot == InitBoot /\ [][NextBoot]_vars

\* the pattern ^[A-Za-z0-9._-]+$ on a token that is present
MatchesPattern(token) ==
    /\ token # Absent
    /\ Len(token[1]) >= 1
    /\ \A i \in 1..Len(token[1]) : token[1][i] \in TokenClass

\* the startup is over: the script is past line 94 or the process has exited
StartupOver == pc \notin {"boot", "configured"}

LoginCalled == pc \in {"loggingIn", "connected", "offline"}

FailedWith(cause, diagnostics) ==
    /\ pc = "exited"
    /\ exit = cause
    /\ startup = [logged |-> diagnostics, exitCode |-> <<1>>]
    /\ severe >= Len(diagnostics)

\* C11: each fatal configuration failure logs its own diagnostic through
\* logger.severe, exits with status 1 and never calls bot.login; a readable
\* config with a token of the pattern reaches bot.login without an exit
C11_FatalStartup ==
    /\ (pc # "boot" /\ configFile.read = "syntax")
           => FailedWith("config", <<"configNotJson">>)
    /\ (pc # "boot" /\ configFile.read = "enoent")
           => FailedWith("config", <<"configNotFound">>)
    /\ (pc # "boot" /\ configFile.read = "other")
           => FailedWith("config", <<"configUnknownError", "err">>)
    /\ (StartupOver /\ configFile.read = "ok"
                    /\ ~MatchesPattern(configFile.token))
           => FailedWith("token", <<"missingValidToken">>)
    /\ (StartupOver /\ configFile.read = "ok"
                    /\ MatchesPattern(configFile.token))
           => (pc # "exited" /\ startup = NoStartup /\ exit = "none")
    /\ LoginCalled
           => (configFile.read = "ok" /\ MatchesPattern(configFile.token)
               /\ startup = NoStartup)

\* a token with a character outside the pattern ended the process with the
\* token diagnostic
C11_Witness ==
    /\ configFile = [read |-> "ok", token |-> Present(<<"a", "!">>)]
    /\ FailedWith("token", <<"missingValidToken">>)

-----------------------------------------------------------------------------
(* The counters: message events only, before and after ready *)

StatsMessages ==
    {Message(t, a, 10, m) : t \in {<<"p">>, <<"!", "p">>},
                            a \in {BotUser, OtherBot, Human2},
                            m \in BOOLEAN}

NextStats ==
    \/ Login
    \/ Connected
    \/ OnReady
    \/ MessageEvent(StatsMessages)
    \/ UnhandledRejection

SpecStats == Init /\ [][NextStats]_vars

MessageHandled == events' = events + 1 /\ last'.kind = "message"

\* C12: every message event adds one to messages-sent (the author is the bot
\* itself) or to messages-received (anyone else), whatever the filters do
\* with it, so that the two add up to the number of message events, and adds
\* one to mentions exactly when the message mentions the bot
C12_StatsCountEveryMessage ==
    /\ [](stats.sent + stats.received = events)
    /\ [][MessageHandled =>
            LET own == last'.msg.author.id = BotUser.id
            IN /\ stats'.sent = stats.sent + (IF own THEN 1 ELSE 0)
               /\ stats'.received = stats.received + (IF own THEN 0 ELSE 1)
               /\ stats'.mentions =
                      stats.mentions + (IF last'.msg.mentioned THEN 1 ELSE 0)]_vars

\* one message of the bot and one of another bot that mentions it, neither of
\* them a command
C12_Witness ==
    /\ events = 2
    /\ stats = [sent |-> 1, received |-> 1, mentions |-> 1]
    /\ last.msg.author = OtherBot
    /\ last.msg.mentioned
    /\ ~Executed

-----------------------------------------------------------------------------
(* The moderator relay: update and delete events around the cache loads *)

RelayStores ==
    [mods : {Absent, Present(<<2>>), Present(<<2, 3>>), Present(<<9, 2>>)},
     channels : {Absent, Present(<<10>>)},
     votes : {Absent}]

RelayMessages ==
    {Message(<<"p">>, a, c, FALSE) : a \in {OtherBot, Human2, Human3},
                                     c \in Channels}

InitRelay == InitWith(MainPrefixes, RelayStores)

NextRelay ==
    \/ Login
    \/ Connected
    \/ OnReady
    \/ ReadResolved
    \/ UpdateEvent(RelayMessages, {<<"p">>, <<"P">>})
    \/ DeleteEvent(RelayMessages)

SpecRelay == InitRelay /\ [][NextRelay]_vars

UpdateHandled == events' = events + 1 /\ last'.kind = "update"
DeleteHandled == events' = events + 1 /\ last'.kind = "delete"

\* what was sent to one moderator, in order
SentTo(sent, modid) ==
    LET ToMod(m) == m.to = modid IN SelectSeq(sent, ToMod)

ModIds == {mafia.mods[i] : i \in 1..Len(mafia.mods)}

Watched(msg) == \E i \in 1..Len(mafia.channels) : mafia.channels[i] = msg.channel

\* an update that is to be relayed reaches every moderator
UpdateNotifiesAll ==
    (/\ UpdateHandled
     /\ ~last'.msg.author.bot
     /\ last'.msg.content # last'.newContent
     /\ Watched(last'.msg)
     /\ last'.msg.author.id \notin ModIds) =>
        \A m \in ModIds :
            SentTo(last'.sent, m) =
                <<[to |-> m, kind |-> "editHeader", content |-> <<>>],
                  [to |-> m, kind |-> "old", content |-> last'.msg.content],
                  [to |-> m, kind |-> "newMarker", content |-> <<>>],
                  [to |-> m, kind |-> "new", content |-> last'.newContent]>>

\* a deletion that is to be relayed reaches every moderator
DeleteNotifiesAll ==
    (/\ DeleteHandled
     /\ ~last'.msg.author.bot
     /\ Watched(last'.msg)
     /\ last'.msg.author.id \notin ModIds) =>
        \A m \in ModIds :
            SentTo(last'.sent, m) =
                <<[to |-> m, kind |-> "deleteHeader", content |-> <<>>],
                  [to |-> m, kind |-> "deleted", content |-> last'.msg.content]>>

\* C13: an update or a deletion in a watched channel by an author who is no
\* moderator (and no bot; for an update, with the content changed) is
\* reported to every moderator of the list: header, old content, 'New'
\* marker, new content for an update; header, content for a deletion
C13_EveryModeratorNotified ==
    [][UpdateNotifiesAll /\ DeleteNotifiesAll]_vars

\* the case of C13 with every moderator in the cache of users
C13_ModeratorsCached ==
    [][(ModIds \subseteq KnownUsers) =>
           (UpdateNotifiesAll /\ DeleteNotifiesAll)]_vars

\* the event is one the handlers do not relay
NotRelayed ==
    \/ last'.msg.author.bot
    \/ last'.msg.author.id \in ModIds
    \/ ~Watched(last'.msg)
    \/ UpdateHandled /\ last'.msg.content = last'.newContent

\* C15: an update or a deletion by a bot, by a moderator, in a channel that
\* is not watched, or (update) with the content unchanged sends nothing, and
\* its handler changes nothing
C15_NoRelayNoEffect ==
    [][((UpdateHandled \/ DeleteHandled) /\ NotRelayed) =>
           /\ last'.sent = <<>>
           /\ ~last'.threw
           /\ UNCHANGED <<config, directory, store, pc, registry, loads, exit,
                          initRuns, startTimes, stats, severe, rejections,
                          reads, mafia, pending, voteView, startup>>]_vars

\* with both caches loaded, a moderator edited a message in a watched
\* channel, and nothing was sent
C15_Witness ==
    /\ last.kind = "update"
    /\ mafia = [mods |-> <<2, 3>>, channels |-> <<10>>, votes |-> <<>>]
    /\ reads = [mods |-> 0, channels |-> 0, votes |-> 0]
    /\ last.msg.author = Human2
    /\ last.msg.channel = 10
    /\ last.msg.content # last.newContent
    /\ last.sent = <<>>
    /\ severe = 0

FirstReadResolved(key) == initRuns >= 1 /\ reads[key] < initRuns

\* C16: nothing is relayed before both the mafia.mods and the mafia.channels
\* read of the first ready event have resolved, whatever the order of the
\* three read completions and of the events; a read that resolves to absent
\* leaves its cache the empty list
C16_NoRelayBeforeCaches ==
    /\ (last.sent # <<>>)
           => (FirstReadResolved("mods") /\ FirstReadResolved("channels"))
    /\ \A key \in {"mods", "channels", "votes"} :
           (store[key] = Absent \/ ~FirstReadResolved(key)) => mafia[key] = <<>>

\* a deletion by a user in a channel the store lists as watched, handled with
\* the moderators loaded and the channels not yet: nothing is sent
C16_Witness ==
    /\ last.kind = "delete"
    /\ last.msg.author = Human3
    /\ last.msg.channel = 10
    /\ store.channels = Present(<<10>>)
    /\ mafia.mods = <<2>>
    /\ mafia.channels = <<>>
    /\ reads.mods = 0
    /\ reads.channels = 1
    /\ last.sent = <<>>

-----------------------------------------------------------------------------
(* Pending continuations and the order of ready and message, under Spec *)

\* a continuation that has not completed: the reply of a command, or a read
\* of the store issued by ready
Hanging == pending > 0 \/ \E key \in DOMAIN reads : reads[key] > 0

\* C14: a continuation that never completes holds back nothing but its own
\* reply: while it is pending, message, update and delete events are still
\* handled (as long as the run has events left) and another command is still
\* dispatched
C14_HangBlocksNothing ==
    (Hanging /\ pc = "connected" /\ events < MaxEvents) =>
        /\ ENABLED MessageEvent(MainMessages)
        /\ ENABLED UpdateEvent(MainEdits, {<<"p">>, <<"!", "p">>})
        /\ ENABLED DeleteEvent(MainEdits)
        /\ registry # {} =>
               ENABLED (MessageEvent(MainMessages) /\ last'.exec # <<>>
                        /\ last'.outcome = "ok")

\* a command ran to its end while the continuation of an earlier one hangs
C14_Witness ==
    /\ pending = 1
    /\ events = 2
    /\ last.kind = "message"
    /\ last.exec # <<>>
    /\ last.outcome = "ok"

\* C17: a message handled before the first ready event executes no command,
\* even when its text is the prefix and the name of a command of the
\* directory, and throws and logs nothing
C17_NoCommandBeforeReady ==
    [][(MessageHandled /\ initRuns = 0) =>
           /\ last'.exec = <<>>
           /\ last'.outcome = "none"
           /\ UNCHANGED <<severe, rejections, pending, pc, registry>>]_vars

\* "!p" of a user, with "p" in the directory, looked up before ready
C17_Witness ==
    /\ initRuns = 0
    /\ last.kind = "message"
    /\ ~last.msg.author.bot
    /\ last.msg.content = config.prefix \o Ping
    /\ \E i \in 1..Len(directory) : directory[i] = Ping
    /\ last.lookup = <<Ping>>
    /\ last.exec = <<>>

-----------------------------------------------------------------------------
(* The vote table and its text, lines 53-89 *)

\* who votes, and whom a vote names: a user, or the id 9 that is in no cache
\* (the vote for no lynch)
Voters == {2, 3}
Targets == {2, 3, 9}

VoteLists ==
    UNION {[1..n -> [voter : Voters, target : Targets]] : n \in 0..MaxVotes}

\* the username of a user of bot.users
Username(id) ==
    CASE id = 0 -> "mafiahelper"
      [] id = 1 -> "otherbot"
      [] id = 2 -> "alice"
      [] id = 3 -> "bob"

\* Map.has (line 57)
Has(vote_table, key) ==
    \E i \in 1..Len(vote_table) : vote_table[i].target = key

\* line 61: vote_table.get(vote.target).push(vote.voter)
Push(vote_table, vote) ==
    [i \in 1..Len(vote_table) |->
        IF vote_table[i].target = vote.target
        THEN [vote_table[i] EXCEPT !.voters = Append(@, vote.voter)]
        ELSE vote_table[i]]

\* line 58: vote_table.set(key, []); a new key goes to the end of the Map, a
\* key the Map has keeps its place
MapSetEmpty(vote_table, key) ==
    IF Has(vote_table, key)
    THEN [i \in 1..Len(vote_table) |->
            IF vote_table[i].target = key
            THEN [vote_table[i] EXCEPT !.voters = <<>>]
            ELSE vote_table[i]]
    ELSE Append(vote_table, [target |-> key, voters |-> <<>>])

\* lines 57-61 without the test of line 57: each vote starts its target's
\* list again
VoteStepReset(vote_table, vote) ==
    Push(MapSetEmpty(vote_table, vote.target), vote)

\* lines 56-62: what one vote does to the table
VoteStep(vote_table, vote) ==
    Push(IF ~Has(vote_table, vote.target)
         THEN MapSetEmpty(vote_table, vote.target)
         ELSE vote_table, vote)

RECURSIVE ForEachVote(_, _)
ForEachVote(votes, vote_table) ==
    IF votes = <<>> THEN vote_table
    ELSE ForEachVote(Tail(votes), VoteStep(vote_table, Head(votes)))

\* lines 53-65; the Map is the sequence of its entries in insertion order
BuildVoteTable(votes) == ForEachVote(votes, <<>>)

\* the lines of the text, each a sequence of pieces
HeaderLine == <<":ballot_box: **Current Vote Count:** :ballot_box:", NL>>
NoVotesLine == <<"There are currently no votes.">>
NoLynch == "No Lynch"

\* line 76: bot.users.get(key).username || 'No Lynch'
TargetName(key) == IF Username(key) = "" THEN NoLynch ELSE Username(key)

\* the grave accent that sets the count in code type
BackQuote == "grave accent"

\* line 78
HeadingLine(target, count) ==
    <<"__**", target, "**__ ", BackQuote, "(", ToString(count), ")",
      BackQuote>>

\* lines 78-84: the lines of one entry of the table
Section(entry) ==
    <<HeadingLine(TargetName(entry.target), Len(entry.voters))>>
    \o [j \in 1..Len(entry.voters) |-> <<Username(entry.voters[j])>>]
    \o << <<>> >>

RECURSIVE Sections(_)
Sections(vote_table) ==
    IF vote_table = <<>> THEN <<>>
    ELSE Section(Head(vote_table)) \o Sections(Tail(vote_table))

\* line 88: output.join with the line end between the lines
RECURSIVE Join(_)
Join(lines) ==
    IF lines = <<>> THEN <<>>
    ELSE IF Len(lines) = 1 THEN lines[1]
    ELSE lines[1] \o <<NL>> \o Join(Tail(lines))

\* bot.users.get(id) is undefined for an id the cache does not hold, and
\* reading .username of it (lines 76, 81) throws a TypeError
UsernameThrows(vote_table) ==
    \E i \in 1..Len(vote_table) :
        \/ vote_table[i].target \notin KnownUsers
        \/ \E j \in 1..Len(vote_table[i].voters) :
               vote_table[i].voters[j] \notin KnownUsers

\* lines 67-89
BuildVoteOutput(votes) ==
    LET vote_table == BuildVoteTable(votes) IN
    IF UsernameThrows(vote_table)
    THEN [threw |-> TRUE, output |-> <<>>]
    ELSE [threw |-> FALSE,
          output |-> Join(<<HeaderLine>>
                          \o (IF Len(vote_table) = 0 THEN <<NoVotesLine>>
                              ELSE <<>>)
                          \o Sections(vote_table))]

\* a command calls bot.mafia.buildVoteTable()
CallBuildVoteTable ==
    /\ pc = "connected"
    /\ voteView' = [table |-> BuildVoteTable(mafia.votes), output |-> <<>>,
                    threw |-> FALSE, built |-> "table"]
    /\ UNCHANGED <<configFile, startup, pending, config, directory, store,
                   pc, registry, loads, exit, initRuns, startTimes, stats,
                   severe, rejections, reads, mafia, inbound, events, last>>

\* a command calls bot.mafia.buildVoteOutput()
CallBuildVoteOutput ==
    /\ pc = "connected"
    /\ LET result == BuildVoteOutput(mafia.votes) IN
           voteView' = [table |-> <<>>, output |-> result.output,
                        threw |-> result.threw, built |-> "output"]
    /\ UNCHANGED <<configFile, startup, pending, config, directory, store,
                   pc, registry, loads, exit, initRuns, startTimes, stats,
                   severe, rejections, reads, mafia, inbound, events, last>>

\* the process after its first ready event, the three reads resolved, with
\* any list of votes in the store
InitVotes ==
    /\ configFile = GoodConfigFile
    /\ startup = NoStartup
    /\ pending = 0
    /\ voteView = NoVoteView
    /\ config = [prefix |-> <<"!">>]
    /\ directory = <<Ping>>
    /\ \E votes \in VoteLists :
           /\ store = [mods |-> Present(<<2>>), channels |-> Present(<<10>>),
                       votes |-> Present(votes)]
           /\ mafia = [mods |-> <<2>>, channels |-> <<10>>, votes |-> votes]
    /\ pc = "connected"
    /\ registry = LoadedNames(directory)
    /\ loads = 1
    /\ exit = "none"
    /\ initRuns = 1
    /\ startTimes = 1
    /\ stats = [sent |-> 0, received |-> 0, mentions |-> 0]
    /\ severe = 0
    /\ rejections = 0
    /\ reads = [mods |-> 0, channels |-> 0, votes |-> 0]
    /\ inbound = <<>>
    /\ events = 0
    /\ last = [NoEvent EXCEPT !.kind = "ready"]

NextVotes ==
    \/ CallBuildVoteTable
    \/ CallBuildVoteOutput

SpecVotes == InitVotes /\ [][NextVotes]_vars

\* the voters of the votes for one target, in vote order
VotersFor(votes, target) ==
    LET ForTarget(vote) == vote.target = target
        chosen == SelectSeq(votes, ForTarget)
    IN  [i \in 1..Len(chosen) |-> chosen[i].voter]

RECURSIVE SumOfLengths(_)
SumOfLengths(vote_table) ==
    IF vote_table = <<>> THEN 0
    ELSE Len(Head(vote_table).voters) + SumOfLengths(Tail(vote_table))

TableBuilt == voteView'.built = "table" /\ voteView' # voteView

\* C18: the table buildVoteTable returns has exactly the distinct targets of
\* the votes as keys, each once, each with the voters of its votes in vote
\* order, no empty list, lengths summing to the number of votes; the call
\* leaves bot.mafia.votes as it was
C18_VoteTable ==
    [][TableBuilt =>
        LET table == voteView'.table
            votes == mafia.votes
        IN  /\ {table[i].target : i \in 1..Len(table)}
                 = {votes[j].target : j \in 1..Len(votes)}
            /\ \A i, j \in 1..Len(table) :
                   table[i].target = table[j].target => i = j
            /\ \A i \in 1..Len(table) :
                   /\ table[i].voters = VotersFor(votes, table[i].target)
                   /\ table[i].voters # <<>>
            /\ SumOfLengths(table) = Len(votes)
            /\ mafia'.votes = votes]_vars

\* a table of two targets, one of them with two votes of one voter
C18_Witness ==
    /\ voteView.built = "table"
    /\ Len(voteView.table) = 2
    /\ \E i \in 1..2 : voteView.table[i].voters = <<2, 2>>
    /\ Len(mafia.votes) = 3

\* the text has this line: at its start or after a line end, and followed by
\* a line end or the end of the text
HasLine(text, line) ==
    \E i \in 0..(Len(text) - Len(line)) :
        /\ SubSeq(text, i + 1, i + Len(line)) = line
        /\ i = 0 \/ text[i] = NL
        /\ i + Len(line) = Len(text) \/ text[i + Len(line) + 1] = NL

OutputBuilt == voteView.built = "output"

\* what the text shows for each target of the votes
OutputShowsVotes ==
    /\ mafia.votes = <<>> => HasLine(voteView.output, NoVotesLine)
    /\ \A j \in 1..Len(mafia.votes) :
           LET target == mafia.votes[j].target
               shown == IF target \in KnownUsers THEN Username(target)
                        ELSE NoLynch
           IN  HasLine(voteView.output,
                       HeadingLine(shown,
                                   Len(VotersFor(mafia.votes, target))))

\* C19: buildVoteOutput returns a text for every list of votes and throws
\* nothing; with no votes the text says there are none, otherwise it has a
\* heading with the number of voters for each target, 'No Lynch' for a target
\* that is no known user
C19_VoteOutput ==
    OutputBuilt => ~voteView.threw /\ OutputShowsVotes

\* with every target a known user the text is returned and shows the votes
C19_KnownTargets ==
    (OutputBuilt /\ \A j \in 1..Len(mafia.votes) :
                        mafia.votes[j].target \in KnownUsers)
        => ~voteView.threw /\ OutputShowsVotes

====
